---- MODULE Spec2Model ----
(***************************************************************************)
(* Model of the real-time face-swap application: the FaceSwapper wrapper   *)
(* (src/face_swap.py) and the FaceSwapUI window (src/gui.py).              *)
(*                                                                         *)
(* The two external models (insightface FaceAnalysis and INSwapper), the   *)
(* camera (cv2.VideoCapture) and the user are the environment: what they   *)
(* return is drawn with \E from small sets.                                *)
(***************************************************************************)
EXTENDS Integers, Sequences, FiniteSets, TLC

(* ------------------------------ bounds --------------------------------- *)

\* Largest number of entries the source combo box is let to grow to, when
\* the source images are followed on their own (SpecSource).
MaxItems == 4

\* Largest number of entries of the source combo box in the whole window
\* (Spec).
MaxShown == 2

\* Largest number of faces the detector reports for one image.
MaxFaces == 2

(* ------------------------------ values --------------------------------- *)

None == "None"

\* Camera frames delivered by cap.read().
Frames == {"f1", "f2"}

\* Image files the user can pick.  x/a.png and y/a.png share a basename;
\* x/bad.png is a file cv2.imread cannot decode (it returns None).
Files == {"x/a.png", "y/a.png", "x/b.png", "x/bad.png"}

basename(file) ==
    CASE file = "x/a.png"   -> "a.png"
      [] file = "y/a.png"   -> "a.png"
      [] file = "x/b.png"   -> "b.png"
      [] file = "x/bad.png" -> "bad.png"

\* The names under which files are listed.
Names == {basename(f) : f \in Files}

\* A raster image.  px names its pixels' origin; an image produced by the
\* swap model also records which target face (dface) received which source
\* face (sface of image sfrom).  dface = 0 means no face was replaced.
Img(p) == [px |-> p, dface |-> 0, sfrom |-> None, sface |-> 0]

NoImage == Img(None)

\* cv2.imread: the decoded image, or None for an undecodable file.
imread(file) == IF file = "x/bad.png" THEN NoImage ELSE Img(file)

\* The i-th face the detector reports for an image (i = 1 is index 0).
Face(img, i) == [img |-> img.px, idx |-> i]

\* The detection list for an image in which the detector finds n faces.
FaceList(img, n) == [i \in 1..n |-> Face(img, i)]

\* What one detector call can do: raise, or report n = 0..MaxFaces faces.
DetOutcomes ==
    {[raises |-> TRUE, n |-> 0]} \cup {[raises |-> FALSE, n |-> k] : k \in 0..MaxFaces}

\* The environment of one swap_face call: what the detector does on the
\* source and on the target, and whether the swap model raises.
SwapEnvs == [srcDet : DetOutcomes, dstDet : DetOutcomes, swapRaise : BOOLEAN]

\* INSwapper.get(img, target_face, source_face, paste_back=True): img with
\* target_face replaced by source_face.
INSwapper_get(img, target_face, source_face) ==
    [px |-> img.px, dface |-> target_face.idx,
     sfrom |-> source_face.img, sface |-> source_face.idx]

(* --------------------------- FaceSwapper ------------------------------- *)

\* Mutation of ModelsNotLoaded: "and" in place of "or".
ModelsNotLoadedAnd(app, swapper) == swapper = None /\ app = None

\* face_swap.py:99  `if not self.swapper or not self.app`
ModelsNotLoaded(app, swapper) == swapper = None \/ app = None

\* Mutation of NoFaceFound: the wrong image is handed back.
NoFaceFoundSrc(src_img, dst_img) == src_img

\* face_swap.py:109-114  the value returned when a detection list is empty.
NoFaceFound(src_img, dst_img) == dst_img

\* Mutation of SwapArgs: the last detected faces instead of the first.
SwapArgsLast(dst_img, dst_faces, src_faces) ==
    <<dst_img, dst_faces[Len(dst_faces)], src_faces[Len(src_faces)]>>

\* face_swap.py:119  the arguments of self.swapper.get(...).
SwapArgs(dst_img, dst_faces, src_faces) ==
    <<dst_img, dst_faces[1], src_faces[1]>>

\* Mutation of OnException: the exception leaves swap_face.
OnExceptionPropagate(dst_img) == [ret |-> NoImage, raised |-> TRUE]

\* face_swap.py:121-124  the except clause: log and return dst_img.
OnException(dst_img) == [ret |-> dst_img, raised |-> FALSE]

\* The result of a swap_face call: the value returned (ret), whether an
\* exception left the call (raised), the level of the message logged, and
\* the calls made on the detector (the images passed to app.get, in order)
\* and on the swap model (the argument tuples passed to swapper.get).
SwapResult(ret, raised, log, appCalls, swapCalls) ==
    [ret |-> ret, raised |-> raised, log |-> log,
     appCalls |-> appCalls, swapCalls |-> swapCalls]

\* face_swap.py:103-124  the try block and its except clause.  A call on a
\* reference that is None raises AttributeError, which the clause catches.
TryDetectAndSwap(app, swapper, src_img, dst_img, env) ==
    LET caught(appCalls, swapCalls) ==
            LET h == OnException(dst_img)
            IN  SwapResult(h.ret, h.raised, "ERROR", appCalls, swapCalls)
        src_faces == FaceList(src_img, env.srcDet.n)
        dst_faces == FaceList(dst_img, env.dstDet.n)
    IN  IF app = None THEN caught(<<>>, <<>>)
        ELSE IF env.srcDet.raises THEN caught(<<src_img>>, <<>>)
        ELSE IF env.dstDet.raises THEN caught(<<src_img, dst_img>>, <<>>)
        ELSE IF Len(src_faces) = 0
             THEN SwapResult(NoFaceFound(src_img, dst_img), FALSE, "WARNING",
                             <<src_img, dst_img>>, <<>>)
        ELSE IF Len(dst_faces) = 0
             THEN SwapResult(NoFaceFound(src_img, dst_img), FALSE, "WARNING",
                             <<src_img, dst_img>>, <<>>)
        ELSE IF swapper = None THEN caught(<<src_img, dst_img>>, <<>>)
        ELSE LET args == SwapArgs(dst_img, dst_faces, src_faces)
             IN  IF env.swapRaise
                 THEN caught(<<src_img, dst_img>>, <<args>>)
                 ELSE SwapResult(INSwapper_get(args[1], args[2], args[3]),
                                 FALSE, "NONE", <<src_img, dst_img>>, <<args>>)

\* face_swap.py:75-124  FaceSwapper.swap_face(src_img, dst_img), called when
\* the load thread is alive or not and self.app / self.swapper are as given.
swap_face(alive, app, swapper, src_img, dst_img, env) ==
    IF alive
    THEN SwapResult(dst_img, FALSE, "INFO", <<>>, <<>>)
    ELSE IF ModelsNotLoaded(app, swapper)
    THEN SwapResult(dst_img, FALSE, "ERROR", <<>>, <<>>)
    ELSE TryDetectAndSwap(app, swapper, src_img, dst_img, env)

\* Mutation of LoadFailed: the detector reference survives the failure.
LoadFailedKeepApp(app, swapper) == [app |-> app, swapper |-> None]

\* face_swap.py:70-73  the except clause of _load_models.
LoadFailed(app, swapper) == [app |-> None, swapper |-> None]

(* ------------------------------- state --------------------------------- *)

VARIABLES
    \* FaceSwapper
    loadPc,         \* where the load thread is in _load_models
    app,            \* self.app: the detector, or None
    swapper,        \* self.swapper: the swap model, or None
    loads,          \* how many times _load_models has been entered
    loadExc,        \* the line of _load_models that raised, or None
    pendingLog,     \* an ERROR record of the load thread queued for the GUI
    \* FaceSwapUI
    src_img,        \* self.src_img: the current source image, or NoImage
    src_images,     \* self.src_images: name -> image, NoImage for no entry
    source_combo,   \* the names listed in self.source_combo
    currentIndex,   \* self.source_combo.currentIndex(), -1 when empty
    face_detection_check,   \* self.face_detection_check.isChecked()
    lock,           \* self.lock is held
    cap,            \* self.cap: None, "open" or "closed" (not isOpened())
    timer,          \* self.timer: None, "active" or "stopped"
    orphanTimers,   \* active QTimers self.timer no longer refers to
    is_running,     \* self.is_running
    start_button,   \* the text of self.start_button
    progress_bar,   \* self.progress_bar is visible
    loading_label,  \* self.loading_label is visible
    initPoll,       \* a QTimer.singleShot(init_camera) is pending
    cam_label,      \* the image shown in self.cam_label
    stack,          \* the modal dialogs open on the GUI thread, innermost last
    closed,         \* closeEvent was accepted: the application has quit
    \* history
    last,           \* what the last step of the GUI did
    call,           \* the last swap_face call made on the FaceSwapper alone
    stopped         \* stop_camera has run and start_camera has not since

swapperVars == <<loadPc, app, swapper, loads, loadExc, pendingLog>>
sourceVars  == <<src_img, src_images, source_combo, currentIndex>>
cameraVars  == <<cap, timer, orphanTimers, is_running, stopped>>
loadingVars == <<progress_bar, loading_label, initPoll>>
vars == <<swapperVars, sourceVars, cameraVars, loadingVars,
          face_detection_check, lock, start_button, cam_label, stack, closed,
          last, call>>

\* threading.Thread.is_alive() of self.thread.
thread_is_alive == loadPc # "done"

NoEnv == [srcDet |-> [raises |-> FALSE, n |-> 0],
          dstDet |-> [raises |-> FALSE, n |-> 0], swapRaise |-> FALSE]

NoResult == SwapResult(NoImage, FALSE, "NONE", <<>>, <<>>)

\* The record of one swap_face call: the state it was made in, its
\* arguments, what the models did, and its result.
Call(alive, a, s, src, dst, env, res) ==
    [made |-> TRUE, alive |-> alive, app |-> a, swapper |-> s,
     src |-> src, dst |-> dst, env |-> env, res |-> res]

NoCall == [made |-> FALSE, alive |-> FALSE, app |-> None, swapper |-> None,
           src |-> NoImage, dst |-> NoImage, env |-> NoEnv, res |-> NoResult]

\* The history record of the GUI: the handler the last step ran, whether
\* capture was running and whether the lock was held when it began, the
\* outcome of cv2.VideoCapture(0) and the frame read in it, and whether it
\* called swap_face.
Last(op, capturing, held, openOk, frame, called) ==
    [op |-> op, capturing |-> capturing, held |-> held, openOk |-> openOk,
     frame |-> frame, called |-> called]

\* The history record left by a step of the load thread and by the
\* handlers the properties do not ask about.
Quiet == Last("-", FALSE, FALSE, FALSE, None, FALSE)

\* face_swap.py:35-40 and gui.py:62-86  the state after FaceSwapUI().
Init ==
    /\ loadPc = "start" /\ app = None /\ swapper = None
    /\ loads = 0 /\ loadExc = None /\ pendingLog = FALSE
    /\ src_img = NoImage /\ src_images = [n \in Names |-> NoImage]
    /\ source_combo = <<>>
    /\ currentIndex = -1
    /\ face_detection_check = TRUE
    /\ lock = FALSE
    /\ cap = None /\ timer = None /\ orphanTimers = 0
    /\ is_running = TRUE
    /\ start_button = "Start"
    /\ progress_bar = FALSE /\ loading_label = TRUE /\ initPoll = TRUE
    /\ cam_label = NoImage
    /\ stack = <<>>
    /\ closed = FALSE
    /\ last = Quiet
    /\ call = NoCall
    /\ stopped = FALSE

(* --------------------------- the load thread --------------------------- *)

\* The steps of the load thread leave the GUI's state alone.
LoadFrame ==
    /\ ~closed
    /\ last' = Quiet
    /\ UNCHANGED <<sourceVars, cameraVars, loadingVars, face_detection_check,
                   lock, start_button, cam_label, stack, closed, call>>

\* face_swap.py:70-73  an exception in the try block of _load_models: it is
\* logged at ERROR, both references are reset and the thread ends.  The
\* record reaches the GUI only if its handler is attached already
\* (gui.py:81 runs after FaceSwapper() at gui.py:62).
LoadRaise ==
    LET h == LoadFailed(app, swapper)
    IN  /\ app' = h.app
        /\ swapper' = h.swapper
        /\ loadExc' = loadPc
        /\ loadPc' = "done"
        /\ \E attached \in BOOLEAN : pendingLog' = attached

\* face_swap.py:38-40, 52-54  the thread enters _load_models.
LoadBegin ==
    /\ loadPc = "start"
    /\ loads' = loads + 1
    /\ loadPc' = "l55"
    /\ UNCHANGED <<app, swapper, loadExc, pendingLog>>
    /\ LoadFrame

\* face_swap.py:55  self.app = FaceAnalysis(name='buffalo_l'), or it raises.
LoadDetector ==
    /\ loadPc = "l55"
    /\ \/ /\ app' = "FaceAnalysis"
          /\ loadPc' = "l57"
          /\ UNCHANGED <<swapper, loadExc, pendingLog>>
       \/ LoadRaise
    /\ UNCHANGED loads
    /\ LoadFrame

\* face_swap.py:57  self.app.prepare(...), or it raises.
PrepareDetector ==
    /\ loadPc = "l57"
    /\ \/ /\ loadPc' = "l61"
          /\ UNCHANGED <<app, swapper, loadExc, pendingLog>>
       \/ LoadRaise
    /\ UNCHANGED loads
    /\ LoadFrame

\* face_swap.py:61-64  the swap model's file is looked for; when it is
\* missing that is logged at ERROR and the thread returns.
CheckModelFile ==
    /\ loadPc = "l61"
    /\ \/ /\ loadPc' = "l68"
          /\ UNCHANGED pendingLog
       \/ /\ loadPc' = "done"
          /\ \E attached \in BOOLEAN : pendingLog' = attached
    /\ UNCHANGED <<app, swapper, loads, loadExc>>
    /\ LoadFrame

\* face_swap.py:68  self.swapper = model_zoo.get_model(model_path), or it
\* raises.
LoadSwapModel ==
    /\ loadPc = "l68"
    /\ \/ /\ swapper' = "INSwapper"
          /\ loadPc' = "l69"
          /\ UNCHANGED <<app, loadExc, pendingLog>>
       \/ LoadRaise
    /\ UNCHANGED loads
    /\ LoadFrame

\* face_swap.py:69  the last message is logged and the thread ends.
LoadFinish ==
    /\ loadPc = "l69"
    /\ loadPc' = "done"
    /\ UNCHANGED <<app, swapper, loads, loadExc, pendingLog>>
    /\ LoadFrame

\* The images swap_face is called with: a decoded source file and a frame.
SourceImages == {imread(f) : f \in Files} \ {NoImage}
FrameImages  == {Img(f) : f \in Frames}

\* face_swap.py:75-124  a caller of the FaceSwapper calls swap_face, at any
\* moment of the load thread's life.
SwapFaceCall ==
    /\ \E src \in SourceImages, dst \in FrameImages, env \in SwapEnvs :
          call' = Call(thread_is_alive, app, swapper, src, dst, env,
                       swap_face(thread_is_alive, app, swapper, src, dst, env))
    /\ UNCHANGED <<swapperVars, sourceVars, cameraVars, loadingVars,
                   face_detection_check, lock, start_button, cam_label,
                   stack, closed, last>>

(* --------------------------- source images ----------------------------- *)

\* The keys of self.src_images.
Keys(images) == {n \in Names : images[n] # NoImage}

\* self.source_combo.currentText()
currentText(combo, index) == combo[index + 1]

\* gui.py:399-417  change_source_image(index): the new self.src_img.  The
\* name looked up is the combo box's current text, whatever index is.
change_source_image(index, combo, current, images, old_src) ==
    IF index >= 0 /\ index < Len(combo)
    THEN images[currentText(combo, current)]
    ELSE old_src

Source(images, combo, current, src) ==
    [src_images |-> images, source_combo |-> combo,
     currentIndex |-> current, src_img |-> src]

\* gui.py:385-395  the body of the loop of add_source_image for one file.
\* QComboBox.addItem on an empty box makes the new item current and emits
\* currentIndexChanged(0), which is connected to change_source_image
\* (gui.py:175).
add_one(st, file) ==
    LET img    == imread(file)
        name   == basename(file)
        images == [st.src_images EXCEPT ![name] = img]
        combo  == Append(st.source_combo, name)
        first  == Len(st.source_combo) = 0
        cur    == IF first THEN 0 ELSE st.currentIndex
        src1   == IF first
                  THEN change_source_image(0, combo, cur, images, st.src_img)
                  ELSE st.src_img
        src2   == IF Cardinality(Keys(images)) = 1
                  THEN change_source_image(0, combo, cur, images, src1)
                  ELSE src1
    IN  IF img = NoImage THEN st ELSE Source(images, combo, cur, src2)

\* gui.py:382-397  the loop of add_source_image over the selected files.
RECURSIVE add_files(_, _)
add_files(st, files) ==
    IF files = <<>> THEN st
    ELSE add_files(add_one(st, Head(files)), Tail(files))

\* The selections a file dialog can return: none (the dialog is cancelled),
\* one file or two.
Selections == {<<>>} \cup {<<f>> : f \in Files} \cup {<<f, g>> : f, g \in Files}

Readable(files) == Cardinality({i \in DOMAIN files : imread(files[i]) # NoImage})

\* The user can act on the window when no modal dialog is open.
Idle == ~closed /\ stack = <<>>

\* gui.py:368-397  add_source_image, on a click of the add button, while
\* the combo box is kept to limit entries.  The file dialog is modal and
\* nothing is written before it returns, so the handler is one step taken
\* when the dialog has returned.
AddSourceImage(limit) ==
    /\ Idle
    /\ \E st \in {add_files(Source(src_images, source_combo,
                                    currentIndex, src_img), files) :
                      files \in {f \in Selections :
                                  Len(source_combo) + Readable(f) <= limit}} :
          /\ src_images' = st.src_images
          /\ source_combo' = st.source_combo
          /\ currentIndex' = st.currentIndex
          /\ src_img' = st.src_img
    /\ last' = Quiet
    /\ UNCHANGED <<swapperVars, cameraVars, loadingVars, face_detection_check,
                   lock, start_button, cam_label, stack, closed, call>>

\* gui.py:175, 399-417  the user picks another entry of the combo box:
\* currentIndexChanged(index) calls change_source_image(index).
SelectSource ==
    /\ Idle
    /\ \E index \in 0..(Len(source_combo) - 1) :
          /\ index # currentIndex
          /\ currentIndex' = index
          /\ src_img' = change_source_image(index, source_combo, index,
                                            src_images, src_img)
    /\ last' = Quiet
    /\ UNCHANGED <<src_images, source_combo>>
    /\ UNCHANGED <<swapperVars, cameraVars, loadingVars, face_detection_check,
                   lock, start_button, cam_label, stack, closed, call>>

\* gui.py:205-207  the user ticks or unticks the detection check box.
ToggleDetection ==
    /\ Idle
    /\ face_detection_check' = ~face_detection_check
    /\ last' = Quiet
    /\ UNCHANGED <<swapperVars, sourceVars, cameraVars, loadingVars,
                   lock, start_button, cam_label, stack, closed, call>>

(* ------------------------------ camera --------------------------------- *)

Camera(c, t, orphans, running) ==
    [cap |-> c, timer |-> t, orphanTimers |-> orphans, is_running |-> running]

\* gui.py:435-462  start_camera().  self.cap is replaced by a new capture;
\* when it is not opened the method returns.  Otherwise a new QTimer is
\* started and replaces self.timer; a timer that was still active goes on
\* firing.
start_camera(cam, openOk) ==
    IF ~openOk
    THEN Camera("closed", cam.timer, cam.orphanTimers, cam.is_running)
    ELSE Camera("open", "active",
                cam.orphanTimers + (IF cam.timer = "active" THEN 1 ELSE 0),
                TRUE)

\* Mutation of stop_camera: the timer is left running.
stop_camera_keep_timer(cam) ==
    Camera(IF cam.cap = "open" THEN "closed" ELSE cam.cap,
           cam.timer, cam.orphanTimers, FALSE)

\* gui.py:464-478  stop_camera()
stop_camera(cam) ==
    Camera(IF cam.cap = "open" THEN "closed" ELSE cam.cap,
           IF cam.timer # None THEN "stopped" ELSE cam.timer,
           cam.orphanTimers, FALSE)

TheCamera == Camera(cap, timer, orphanTimers, is_running)

SetCamera(cam) ==
    /\ cap' = cam.cap
    /\ timer' = cam.timer
    /\ orphanTimers' = cam.orphanTimers
    /\ is_running' = cam.is_running

\* A timer connected to update_frame is running.
TimerActive == timer = "active" \/ orphanTimers > 0

\* Frames are being captured: the handle is open and a timer fires.
Capturing == cap = "open" /\ TimerActive

\* gui.py:419-433  toggle_camera(), on a click of the start button, with
\* a camera that can be opened (openOk) or not.
ToggleCamera ==
    /\ Idle
    /\ \E openOk \in BOOLEAN :
          /\ IF is_running
             THEN /\ SetCamera(stop_camera(TheCamera))
                  /\ start_button' = "Start"
                  /\ stopped' = TRUE
             ELSE /\ SetCamera(start_camera(TheCamera, openOk))
                  /\ start_button' = "Stop"
                  /\ stopped' = FALSE
          /\ last' = Last("toggle_camera", Capturing, lock, openOk, None, FALSE)
    /\ UNCHANGED <<swapperVars, sourceVars, loadingVars, face_detection_check,
                   lock, cam_label, stack, closed, call>>

\* gui.py:573-582  closeEvent(): the camera is stopped and the window
\* closes, which ends the application (gui.py:616).
CloseEvent ==
    /\ Idle
    /\ SetCamera(stop_camera(TheCamera))
    /\ stopped' = TRUE
    /\ closed' = TRUE
    /\ last' = Last("closeEvent", FALSE, FALSE, FALSE, None, FALSE)
    /\ UNCHANGED <<swapperVars, sourceVars, loadingVars, face_detection_check,
                   lock, start_button, cam_label, stack, call>>

(* --------------------------- the frame timer --------------------------- *)

\* Mutation of LockAcquire: the lock is taken again while it is held.
LockAcquireReentrant(held) == TRUE

\* gui.py:545  self.lock.acquire(blocking=False) succeeds iff the lock is
\* free; it never waits.
LockAcquire(held) == ~held

\* Mutation of lock_release: release() follows the guarded block instead of
\* standing in a finally clause, so it is skipped when the block raises.
lock_release_after_block(raised) == raised

\* gui.py:546, 565-566  try: ... finally: self.lock.release()  the lock a
\* tick has taken is held (TRUE) or free (FALSE) when the tick leaves the
\* guarded block: it is released whether or not the block raised.
lock_release(raised) == FALSE

\* gui.py:549  display_frame = result if result is not None else frame
display_frame(result, frame) == IF result # NoImage THEN result ELSE Img(frame)

\* A modal QMessageBox opened by handle_log (gui.py:498-499).  "swap" is the
\* box of an ERROR record logged inside swap_face, which a tick of
\* update_frame is waiting in: frame is the frame it read and res the
\* result swap_face is about to return.  "log" is the box of a record of
\* the load thread.
Dialog(kind, frame, res) == [kind |-> kind, frame |-> frame, res |-> res]

\* The ticks of update_frame that are inside swap_face.
SwapsInProgress == Cardinality({i \in DOMAIN stack : stack[i].kind = "swap"})

\* Timers fire at the top level and in the event loop of a modal dialog.
\* Whether Qt delivers a timeout of a timer whose previous timeout is still
\* being handled (in a box opened inside update_frame) is left open: the
\* model lets it happen.
TimerFires == ~closed /\ TimerActive

TickFrame ==
    UNCHANGED <<swapperVars, sourceVars, cameraVars, loadingVars,
                face_detection_check, start_button, closed, call>>

\* gui.py:529-534  update_frame() returns at once: there is no open
\* capture, or no frame could be read.
UpdateFrameNoFrame ==
    /\ TimerFires
    /\ \E ret \in BOOLEAN : cap # "open" \/ ~ret
    /\ last' = Last("update_frame", Capturing, lock, FALSE, None, FALSE)
    /\ UNCHANGED <<lock, cam_label, stack>>
    /\ TickFrame

\* gui.py:532-545, 567-571  update_frame() finds the lock taken: the frame
\* read is shown as it is.
UpdateFrameSkip ==
    /\ TimerFires
    /\ cap = "open"
    /\ ~LockAcquire(lock)
    /\ \E frame \in Frames :
          /\ cam_label' = Img(frame)
          /\ last' = Last("update_frame", Capturing, lock, FALSE, frame, FALSE)
    /\ UNCHANGED <<lock, stack>>
    /\ TickFrame

\* gui.py:532-547, 558-571  update_frame() takes the lock with detection
\* disabled or no source image: the frame is shown as it is and the lock
\* released.
UpdateFrameNoSwap ==
    /\ TimerFires
    /\ cap = "open"
    /\ LockAcquire(lock)
    /\ ~(face_detection_check /\ src_img # NoImage)
    /\ \E frame \in Frames :
          /\ cam_label' = Img(frame)
          /\ last' = Last("update_frame", Capturing, lock, FALSE, frame, FALSE)
    /\ lock' = lock_release(FALSE)
    /\ UNCHANGED stack
    /\ TickFrame

\* gui.py:532-557, 565-571  update_frame() takes the lock and calls
\* swap_face.  A record swap_face logs at ERROR opens a modal box
\* (gui.py:498-499) before swap_face returns: the tick waits in it, holding
\* the lock.  Otherwise the result is shown and the lock released; were
\* swap_face to raise, the finally clause would release the lock and
\* nothing would be shown.
UpdateFrameSwap ==
    /\ TimerFires
    /\ cap = "open"
    /\ LockAcquire(lock)
    /\ face_detection_check /\ src_img # NoImage
    /\ \E frame \in Frames :
       \E res \in {swap_face(thread_is_alive, app, swapper,
                             src_img, Img(frame), env) : env \in SwapEnvs} :
              /\ last' = Last("update_frame", Capturing, lock, FALSE, frame, TRUE)
              /\ IF res.log = "ERROR"
                 THEN /\ stack' = Append(stack, Dialog("swap", frame, res))
                      /\ lock' = TRUE
                      /\ UNCHANGED cam_label
                 ELSE /\ lock' = lock_release(res.raised)
                      /\ cam_label' = IF res.raised THEN cam_label
                                      ELSE display_frame(res.ret, frame)
                      /\ UNCHANGED stack
    /\ TickFrame

\* gui.py:545-566, 612-616  update_frame() takes the lock and the guarded
\* block raises what swap_face does not catch (a KeyboardInterrupt
\* delivered while the block runs, say).  The finally clause releases the
\* lock and nothing is shown.  The exception leaves the slot: PyQt prints it
\* and the event loop goes on, or, from PyQt 5.5 on with no excepthook
\* installed, the process is aborted.
UpdateFrameRaise ==
    /\ TimerFires
    /\ cap = "open"
    /\ LockAcquire(lock)
    /\ last' = Last("update_frame_raised", Capturing, lock, FALSE, None, FALSE)
    /\ lock' = lock_release(TRUE)
    /\ \E aborted \in BOOLEAN : closed' = aborted
    /\ UNCHANGED <<cam_label, stack>>
    /\ UNCHANGED <<swapperVars, sourceVars, cameraVars, loadingVars,
                   face_detection_check, start_button, call>>

Top == stack[Len(stack)]

Pop == SubSeq(stack, 1, Len(stack) - 1)

\* gui.py:498-499, 549-571  the user closes the box a tick is waiting in:
\* swap_face returns, the result is shown and the lock released.
CloseSwapDialog ==
    /\ ~closed
    /\ stack # <<>>
    /\ Top.kind = "swap"
    /\ stack' = Pop
    /\ lock' = lock_release(Top.res.raised)
    /\ cam_label' = IF Top.res.raised THEN cam_label
                    ELSE display_frame(Top.res.ret, Top.frame)
    /\ last' = Last("update_frame_end", Capturing, lock, FALSE, Top.frame, FALSE)
    /\ TickFrame

(* ---------------------- messages and load polling ---------------------- *)

\* gui.py:80, 480-499  the ERROR record of the load thread reaches
\* handle_log through the queued signal: a modal box opens.
ShowLoadError ==
    /\ ~closed
    /\ pendingLog
    /\ pendingLog' = FALSE
    /\ stack' = Append(stack, Dialog("log", None, NoResult))
    /\ last' = Quiet
    /\ UNCHANGED <<loadPc, app, swapper, loads, loadExc>>
    /\ UNCHANGED <<sourceVars, cameraVars, loadingVars, face_detection_check,
                   lock, start_button, cam_label, closed, call>>

\* gui.py:498-499  the user closes that box.
CloseLogDialog ==
    /\ ~closed
    /\ stack # <<>>
    /\ Top.kind = "log"
    /\ stack' = Pop
    /\ last' = Quiet
    /\ UNCHANGED <<swapperVars, sourceVars, cameraVars, loadingVars,
                   face_detection_check, lock, start_button, cam_label, closed, call>>

\* The loading widgets and the pending QTimer.singleShot call of
\* init_camera.
Loading(bar, label, poll) ==
    [progress_bar |-> bar, loading_label |-> label, initPoll |-> poll]

\* Mutation of init_camera: the call is not scheduled again while the load
\* thread is alive.
init_camera_once(alive, bar, label) ==
    IF alive THEN Loading(TRUE, label, FALSE)
             ELSE Loading(FALSE, FALSE, FALSE)

\* gui.py:510-517  init_camera(): while the load thread is alive the
\* progress bar is shown and the call scheduled again (the loading label is
\* not touched); afterwards the progress bar and the loading label are
\* hidden and nothing is scheduled.
init_camera(alive, bar, label) ==
    IF alive THEN Loading(TRUE, label, TRUE)
             ELSE Loading(FALSE, FALSE, FALSE)

\* gui.py:86, 501-517  init_camera(), run by QTimer.singleShot.
InitCamera ==
    /\ ~closed
    /\ initPoll
    /\ LET st == init_camera(thread_is_alive, progress_bar, loading_label)
       IN  /\ progress_bar' = st.progress_bar
           /\ loading_label' = st.loading_label
           /\ initPoll' = st.initPoll
    /\ last' = Quiet
    /\ UNCHANGED <<swapperVars, sourceVars, cameraVars, face_detection_check,
                   lock, start_button, cam_label, stack, closed, call>>

(* --------------------------- specification ----------------------------- *)

Next ==
    \/ LoadBegin
    \/ LoadDetector
    \/ PrepareDetector
    \/ CheckModelFile
    \/ LoadSwapModel
    \/ LoadFinish
    \/ AddSourceImage(MaxShown)
    \/ SelectSource
    \/ ToggleDetection
    \/ ToggleCamera
    \/ CloseEvent
    \/ UpdateFrameNoFrame
    \/ UpdateFrameSkip
    \/ UpdateFrameNoSwap
    \/ UpdateFrameSwap
    \/ UpdateFrameRaise
    \/ CloseSwapDialog
    \/ ShowLoadError
    \/ CloseLogDialog
    \/ InitCamera

Spec == Init /\ [][Next]_vars

\* The window with its event loop running: a call scheduled with
\* QTimer.singleShot (gui.py:86, 513) is made once its interval is over,
\* also inside the event loop of a modal box.  Nothing is assumed about
\* the load thread, the camera timer or the user.
SpecFair == Spec /\ WF_vars(InitCamera)

\* The FaceSwapper on its own: its load thread and its callers.
NextSwapper ==
    \/ LoadBegin
    \/ LoadDetector
    \/ PrepareDetector
    \/ CheckModelFile
    \/ LoadSwapModel
    \/ LoadFinish
    \/ SwapFaceCall

SpecSwapper == Init /\ [][NextSwapper]_vars

\* The source images on their own: the handlers of the add button and of
\* the combo box, which read and write nothing else.
NextSource ==
    \/ AddSourceImage(MaxItems)
    \/ SelectSource

SpecSource == Init /\ [][NextSource]_vars

(* ------------------------------ properties ----------------------------- *)

\* Both models were loaded when the call was made.
CallLoaded == ~call.alive /\ call.app # None /\ call.swapper # None

\* C1: a swap_face call made while the load thread is alive, or after it
\* ended with the detector or the swap model absent, returns exactly dst
\* and calls neither the detector nor the swap model.
C1_NotUsableReturnsTarget ==
    (call.made /\ (call.alive \/ call.app = None \/ call.swapper = None))
        => /\ call.res.ret = call.dst
           /\ ~call.res.raised
           /\ call.res.appCalls = <<>>
           /\ call.res.swapCalls = <<>>

\* C1 witness: a call made after the thread ended with the swap model's
\* file missing, so that only the detector is set.
C1_Witness ==
    /\ call.made /\ ~call.alive
    /\ call.app # None /\ call.swapper = None
    /\ call.res.ret = call.dst

\* The detector reported an empty list for the source, or for the target.
NoFaceCase ==
    /\ ~call.env.srcDet.raises
    /\ \/ call.env.srcDet.n = 0
       \/ ~call.env.dstDet.raises /\ call.env.dstDet.n = 0

\* C2: with both models loaded, when the detector finds no face in the
\* source or none in the target, swap_face returns exactly dst and the swap
\* model is never called.
C2_NoFaceReturnsTarget ==
    (call.made /\ CallLoaded /\ NoFaceCase)
        => /\ call.res.ret = call.dst
           /\ call.res.swapCalls = <<>>

\* C2 witness: faces in the source, none in the target.
C2_Witness ==
    /\ call.made /\ CallLoaded
    /\ ~call.env.srcDet.raises /\ call.env.srcDet.n = MaxFaces
    /\ ~call.env.dstDet.raises /\ call.env.dstDet.n = 0
    /\ call.res.ret = call.dst

\* A model raised in the call: the detector on the source, the detector on
\* the target, or the swap model once both lists were non-empty.
ModelRaised ==
    /\ CallLoaded
    /\ \/ call.env.srcDet.raises
       \/ call.env.dstDet.raises
       \/ call.env.srcDet.n > 0 /\ call.env.dstDet.n > 0 /\ call.env.swapRaise

\* C3: no swap_face call raises to its caller; made while loading, after a
\* failed load, or with a model raising, it returns the target image dst.
C3_NeverRaises ==
    call.made
        => /\ ~call.res.raised
           /\ (call.alive \/ ~CallLoaded \/ ModelRaised)
                 => call.res.ret = call.dst

\* C3 witness: the swap model raised after both detections found faces.
C3_Witness ==
    /\ call.made /\ CallLoaded
    /\ ~call.env.srcDet.raises /\ call.env.srcDet.n > 0
    /\ ~call.env.dstDet.raises /\ call.env.dstDet.n > 0
    /\ call.env.swapRaise
    /\ call.res.swapCalls # <<>>
    /\ call.res.ret = call.dst

\* Both detections found a face and no model raised.
SwapCase ==
    /\ CallLoaded
    /\ ~call.env.srcDet.raises /\ call.env.srcDet.n >= 1
    /\ ~call.env.dstDet.raises /\ call.env.dstDet.n >= 1
    /\ ~call.env.swapRaise

\* C4: with both models loaded, a face found in each image and no
\* exception, swap_face returns the swap model's output for dst with the
\* first detected target face replaced by the first detected source face,
\* and the swap model is called with no other pair.
C4_FirstFaceOntoFirstFace ==
    (call.made /\ SwapCase)
        => /\ call.res.ret =
                 INSwapper_get(call.dst, Face(call.dst, 1), Face(call.src, 1))
           /\ call.res.swapCalls =
                 << <<call.dst, Face(call.dst, 1), Face(call.src, 1)>> >>
           /\ ~call.res.raised

\* C4 witness: several faces in both images.
C4_Witness ==
    /\ call.made /\ SwapCase
    /\ call.env.srcDet.n = MaxFaces /\ call.env.dstDet.n = MaxFaces
    /\ call.res.ret.dface = 1 /\ call.res.ret.sface = 1

\* C5: _load_models is entered once, by the thread started at
\* construction, and never again; when the thread has ended after an
\* exception, the detector and the swap model are both unset.
C5_LoadOnceAndReset ==
    /\ loads <= 1
    /\ (loadPc # "start") => loads = 1
    /\ (loadPc = "done" /\ loadExc # None) => (app = None /\ swapper = None)

\* C5 witness: the swap model's loading raised, after the detector had been
\* created and prepared.
C5_Witness ==
    /\ loadPc = "done" /\ loadExc = "l68"
    /\ app = None /\ swapper = None /\ loads = 1

\* C6 (as claimed): capture is never running while the load thread is
\* alive.
C6_NoCaptureWhileLoading == Capturing => ~thread_is_alive

\* A tick of update_frame that read a frame while the lock was held.
SkippedTick == last.op = "update_frame" /\ last.held /\ last.frame # None

\* C7: at most one tick of update_frame is inside swap_face; a tick that
\* runs while the lock is held neither waits nor calls swap_face: it shows
\* the frame it read and leaves nothing behind to be run later.
C7_OneSwapAtATime ==
    /\ [](SwapsInProgress <= 1)
    /\ [][(last'.op = "update_frame" /\ lock)
            => /\ ~last'.called
               /\ last'.frame # None => cam_label' = Img(last'.frame)
               /\ UNCHANGED <<stack, lock>>]_vars

\* C7 witness: a tick ran while another was inside swap_face, and showed
\* its own frame.
C7_Witness ==
    /\ SkippedTick
    /\ SwapsInProgress = 1
    /\ lock
    /\ cam_label = Img(last.frame)
    /\ stack[Len(stack)].frame # last.frame

\* C8: after stop_camera, and until start_camera is called again, the
\* capture handle is not open, no timer is running and no tick of
\* update_frame runs or is under way.
C8_StoppedMeansNoFrames ==
    stopped
        => /\ cap # "open"
           /\ ~TimerActive
           /\ last.op \notin {"update_frame", "update_frame_raised",
                           "update_frame_end"}
           /\ SwapsInProgress = 0

\* C8 witness: the camera was stopped after frames had been shown.
C8_Witness ==
    /\ stopped /\ ~closed
    /\ cap = "closed" /\ timer = "stopped"
    /\ cam_label # NoImage

\* C9 (as claimed): either nothing was added and no source image is set, or
\* the selected index is within the list, the selected name is a key of
\* the collection and the current source image is held in the collection.
C9_SelectionValid ==
    \/ /\ source_combo = <<>>
       /\ src_img = NoImage
    \/ /\ currentIndex >= 0 /\ currentIndex < Len(source_combo)
       /\ currentText(source_combo, currentIndex) \in Keys(src_images)
       /\ src_img \in {src_images[n] : n \in Keys(src_images)}

\* C10 (as claimed): a toggle stops a capturing camera and starts a stopped
\* one that can be opened, and leaves is_running and the button text in
\* agreement with whether capture is running.
C10_ToggleAgrees ==
    last.op = "toggle_camera"
        => /\ last.capturing => ~Capturing
           /\ (~last.capturing /\ last.openOk) => Capturing
           /\ is_running = Capturing
           /\ (start_button = "Stop") = Capturing

\* The progress bar and the loading label are hidden and init_camera is not
\* scheduled any more.
LoadingHidden == ~progress_bar /\ ~loading_label /\ ~initPoll

\* C11: while the load thread is alive the loading label stays visible and
\* init_camera stays scheduled, each run of init_camera leaves the progress
\* bar shown, and no step hides the progress bar or the loading label; once
\* the load thread has terminated, with or without an exception, and the
\* window stays open, init_camera hides the progress bar and the loading
\* label and is not scheduled again.
C11_LoadPolling ==
    /\ [](thread_is_alive => loading_label /\ initPoll)
    /\ [][thread_is_alive /\ InitCamera
             => progress_bar' /\ loading_label' /\ initPoll']_vars
    /\ [][thread_is_alive
             => /\ progress_bar => progress_bar'
                /\ loading_label => loading_label']_vars
    /\ [](LoadingHidden => ~thread_is_alive)
    /\ (~thread_is_alive) ~> (LoadingHidden \/ closed)

\* The load thread raised, and init_camera has hidden the progress bar and
\* the loading label of the open window.
C11_Witness == loadExc # None /\ ~thread_is_alive /\ LoadingHidden /\ ~closed

\* C12: a tick of update_frame that took the lock has released it when it
\* ends, whether it called swap_face, found detection disabled or no source
\* image, or left the guarded block by an exception; so the lock is free
\* whenever no tick is inside the guarded block, and a tick that reads a
\* frame then, with detection enabled and a source image selected, is not
\* skipped: it calls swap_face, however earlier swaps ended.
C12_LockReleased ==
    /\ [](SwapsInProgress = 0 => ~lock)
    /\ [][(/\ last'.op \in {"update_frame", "update_frame_raised"}
           /\ LockAcquire(lock)
           /\ SwapsInProgress' = SwapsInProgress) => ~lock']_vars
    /\ [][last'.op = "update_frame_end" => ~lock']_vars
    /\ [][(/\ last'.op = "update_frame"
           /\ last'.frame # None
           /\ SwapsInProgress = 0
           /\ face_detection_check /\ src_img # NoImage) => last'.called]_vars

\* C12 witness: the guarded block of a tick raised, the window is still
\* open with the camera running, and the lock is free.
C12_Witness ==
    /\ last.op = "update_frame_raised"
    /\ ~closed
    /\ Capturing
    /\ face_detection_check /\ src_img # NoImage
    /\ ~lock

====
